---- MODULE Spec2Model ----
(***************************************************************************)
(* Pairwise variant calling of MicroGenome Analyzer Pro:                   *)
(* core/variant/variant_engine.py (VariantWorker) as a state machine.      *)
(*                                                                         *)
(* A Python str is a sequence of one-character strings.  An optional value *)
(* (None or a str) is a record [none, s].  The Ts/Tv ratio, which the code *)
(* rounds to two decimals, is kept as an integer number of hundredths.     *)
(***************************************************************************)
EXTENDS Integers, Sequences, FiniteSets, TLC

\* ------------------------------------------------------------------ bounds
\* longest sequence a FASTA record of the model holds
MaxSeqLen == 5
\* the working-length cap of run (50000 in the source), scaled to the model
AlignCap == 4
\* longest alignment drawn for the extractor taken alone
MaxAlnLen == 5
\* longest one-variant alignment drawn for the context window
MaxLongLen == 23

\* ------------------------------------------------------- program constants
match_score == 1
mismatch_score == -1
open_gap_score == -2
extend_gap_score == -1
\* the context radius of call_variants: i - 10 .. i + 11
CtxRadius == 10
\* len(ref_seq) > 5000000
LargeGenome == 5000000

\* ------------------------------------------------------------------ helpers
Min(a, b) == IF a < b THEN a ELSE b

Max(a, b) == IF a > b THEN a ELSE b

\* s[:n]
\* a variant of Take that keeps the whole sequence
Take_all(s, n) == s

Take(s, n) == SubSeq(s, 1, Min(Len(s), n))

\* s[start:end] with 0 <= start <= end <= len(s)
Slice(s, start, end) == SubSeq(s, start + 1, end)

\* all sequences over S of length lo..hi
SeqsOf(S, lo, hi) == UNION {[1..k -> S] : k \in lo..hi}

Gap == "-"

Bases == <<"A", "C", "G", "T">>

\* str.upper() on one character
Upper(c) ==
    CASE c = "a" -> "A"
      [] c = "c" -> "C"
      [] c = "g" -> "G"
      [] c = "t" -> "T"
      [] OTHER -> c

\* a variant of upper that leaves the case as it is
upper_identity(s) == s

\* str.upper()
upper(s) == [k \in 1..Len(s) |-> Upper(s[k])]

\* ------------------------------------------------------------------- files
\* what a path holds: no file, a file open() cannot read, or FASTA records
\* (each the concatenation of its sequence lines)
Missing == [kind |-> "missing", records |-> <<>>]

Unreadable == [kind |-> "unreadable", records |-> <<>>]

Fasta(recs) == [kind |-> "fasta", records |-> recs]

FileAlphabet == {"A", "c"}

Files ==
    {Missing, Unreadable, Fasta(<<>>)}
        \cup {Fasta(<<s>>) : s \in SeqsOf(FileAlphabet, 0, MaxSeqLen)}
        \cup {Fasta(<<s, <<"T">>>>) : s \in SeqsOf(FileAlphabet, 1, 1)}

\* a FASTA file as text: a sequence of lines, each a sequence of characters.
\* A line that starts with ">" opens a record; the lines up to the next such
\* line are the record's sequence, concatenated.
IsHeader(line) == Len(line) > 0 /\ line[1] = ">"

\* SeqIO.parse(f, "fasta") over lines k..: recs are the records so far
RECURSIVE ParseFasta(_, _, _)
ParseFasta(lines, k, recs) ==
    IF k > Len(lines) THEN recs
    ELSE IF IsHeader(lines[k]) THEN ParseFasta(lines, k + 1, Append(recs, <<>>))
    ELSE IF Len(recs) = 0 THEN ParseFasta(lines, k + 1, recs)
    ELSE ParseFasta(lines, k + 1, [recs EXCEPT ![Len(recs)] = @ \o lines[k]])

TextFile(lines) == [kind |-> "fasta", records |-> ParseFasta(lines, 1, <<>>), lines |-> lines]

\* the outcome of a call that returns an optional str or raises
None == [none |-> TRUE, s |-> <<>>, raised |-> FALSE]

Some(s) == [none |-> FALSE, s |-> s, raised |-> FALSE]

Raised == [none |-> TRUE, s |-> <<>>, raised |-> TRUE]

\* the try body of read_fasta: None when the path does not exist; open()
\* raises on a file it cannot read and next() on a file without a record;
\* else the first record, uppercased
read_first(file) ==
    IF file.kind = "missing" THEN None
    ELSE IF file.kind = "unreadable" THEN Raised
    ELSE IF Len(file.records) = 0 THEN Raised
    ELSE Some(upper(file.records[1]))

\* read_fasta: the bare except turns whatever was raised into None
read_fasta(file) == IF read_first(file).raised THEN None ELSE read_first(file)

\* a variant of Truthy that tests `is not None'
Truthy_not_none(v) == ~v.none

\* Python truth of an optional str: None and "" are both false
Truthy(v) == ~v.none /\ Len(v.s) > 0

\* a variant of CouldNotRead with `and' for `or'
CouldNotRead_both(r, q) == ~Truthy(r) /\ ~Truthy(q)

\* the guard of run: not ref_seq or not query_seq
CouldNotRead(r, q) == ~Truthy(r) \/ ~Truthy(q)

\* ----------------------------------------------------------------- aligner
\* PairwiseAligner in global mode with match 1, mismatch -1, open gap -2,
\* extend gap -1: the three-state affine-gap dynamic program.  A cell holds,
\* for each state, the best score of an alignment of the two prefixes that
\* ends in that state, as a set: empty when no such alignment exists.
\*   M: the last column pairs ref[i] with query[j]
\*   X: the last column pairs ref[i] with a gap
\*   Y: the last column pairs a gap with query[j]
States == {"M", "X", "Y"}

Best(S) == IF S = {} THEN {} ELSE {CHOOSE x \in S : \A y \in S : y <= x}

Shift(S, d) == {x + d : x \in S}

SubScore(a, b) == IF a = b THEN match_score ELSE mismatch_score

\* a variant of GapScore with the two gap scores exchanged
GapScore_swapped(from, to) == IF from = to THEN open_gap_score ELSE extend_gap_score

\* the cost of entering state `to' from state `from' by a gap column
GapScore(from, to) == IF from = to THEN extend_gap_score ELSE open_gap_score

Cell(T, ref, qry, i, j) ==
    IF i = 0 /\ j = 0 THEN [M |-> {0}, X |-> {}, Y |-> {}]
    ELSE
        [M |-> IF i > 0 /\ j > 0
               THEN Best(UNION {Shift(T[<<i - 1, j - 1>>][s], SubScore(ref[i], qry[j]))
                                  : s \in States})
               ELSE {},
         X |-> IF i > 0
               THEN Best(UNION {Shift(T[<<i - 1, j>>][s], GapScore(s, "X")) : s \in States})
               ELSE {},
         Y |-> IF j > 0
               THEN Best(UNION {Shift(T[<<i, j - 1>>][s], GapScore(s, "Y")) : s \in States})
               ELSE {}]

\* the table filled row by row; cell k is (k \div (m+1), k % (m+1))
RECURSIVE FillTable(_, _, _, _)
FillTable(T, ref, qry, k) ==
    LET w == Len(qry) + 1
        i == k \div w
        j == k % w
    IN  IF k = (Len(ref) + 1) * w THEN T
        ELSE FillTable(T @@ (<<i, j>> :> Cell(T, ref, qry, i, j)), ref, qry, k + 1)

ScoreTable(ref, qry) == FillTable(<<>>, ref, qry, 0)

\* an alignment is its two gapped rows
Aln(t, q) == [target |-> t, query |-> q]

\* the predecessors (state, i, j) of state s at cell (i, j) on an optimal path
Preds(T, ref, qry, s, i, j) ==
    LET pi == IF s = "Y" THEN i ELSE i - 1
        pj == IF s = "X" THEN j ELSE j - 1
        d(p) == IF s = "M" THEN SubScore(ref[i], qry[j]) ELSE GapScore(p, s)
    IN  {<<p, pi, pj>> : p \in {p \in States : Shift(T[<<pi, pj>>][p], d(p)) = T[<<i, j>>][s]
                                               /\ T[<<pi, pj>>][p] # {}}}

\* every optimal alignment of ref[1..i] with query[1..j] that ends in state s
RECURSIVE Traceback(_, _, _, _, _, _)
Traceback(T, ref, qry, s, i, j) ==
    IF i = 0 /\ j = 0 THEN {Aln(<<>>, <<>>)}
    ELSE
        LET r == IF s = "Y" THEN Gap ELSE ref[i]
            q == IF s = "X" THEN Gap ELSE qry[j]
        IN  UNION {{Aln(Append(a.target, r), Append(a.query, q))
                      : a \in Traceback(T, ref, qry, p[1], p[2], p[3])}
                     : p \in Preds(T, ref, qry, s, i, j)}

\* a variant of align in local mode: the path ends at the best cell of the
\* table, wherever it lies
align_local(ref, qry) ==
    LET T == ScoreTable(ref, qry)
        ends == ((0..Len(ref)) \X (0..Len(qry))) \X States
        top == Best(UNION {T[e[1]][e[2]] : e \in ends})
    IN  UNION {Traceback(T, ref, qry, e[2], e[1][1], e[1][2])
                 : e \in {e \in ends : T[e[1]][e[2]] = top}}

\* aligner.align(ref, query): the optimal global alignments; the source takes
\* alignment[0], whichever of them the engine yields first
align(ref, qry) ==
    LET T == ScoreTable(ref, qry)
        n == Len(ref)
        m == Len(qry)
        top == Best(UNION {T[<<n, m>>][s] : s \in States})
    IN  UNION {Traceback(T, ref, qry, s, n, m) : s \in {s \in States : T[<<n, m>>][s] = top}}

\* ------------------------------------------------------------- extraction
\* a variant of format_fasta that takes the sequences of the alignment, which
\* carry no gaps, for its rows
format_fasta_ungapped(alignment) ==
    << <<">">>, SelectSeq(alignment.target, LAMBDA c : c # Gap),
       <<">">>, SelectSeq(alignment.query, LAMBDA c : c # Gap) >>

\* format(alignment, "fasta").splitlines(): a header line and a row for each
\* of the two sequences; a str has no id, so each header is a bare ">"
format_fasta(alignment) == << <<">">>, alignment.target, <<">">>, alignment.query >>

\* round(ts / tv, 2) in hundredths, ties to even.  (The float quotient of the
\* code is exact enough for this up to tv < 40.)
RatioScale == 100

\* a variant of round_ratio that truncates: int(ts / tv * 100) / 100
round_ratio_floor(ts, tv) == (ts * RatioScale) \div tv

round_ratio(ts, tv) ==
    LET q == (ts * RatioScale) \div tv
        r == (ts * RatioScale) % tv
    IN  IF 2 * r > tv THEN q + 1
        ELSE IF 2 * r = tv THEN q + (q % 2)
        ELSE q

\* a variant of IsTransition that forgets the pyrimidines
IsTransition_purines(r, q) == r \in {"A", "G"} /\ q \in {"A", "G"}

\* (r in "AG" and q in "AG") or (r in "CT" and q in "CT")
IsTransition(r, q) == (r \in {"A", "G"} /\ q \in {"A", "G"}) \/ (r \in {"C", "T"} /\ q \in {"C", "T"})

\* a variant of VType that tests the query row first and swaps the labels
VType_swapped(r, q) == IF q = Gap THEN "Insertion" ELSE IF r = Gap THEN "Deletion" ELSE "SNP"

\* the v_type of a column with r # q
VType(r, q) == IF r = Gap THEN "Insertion" ELSE IF q = Gap THEN "Deletion" ELSE "SNP"

\* a variant of VariantAt that reports the 0-based column
VariantAt_zero_based(ref_aligned, query_aligned, i) ==
    LET r == ref_aligned[i + 1]
        q == query_aligned[i + 1]
        start == Max(0, i - CtxRadius)
        end == Min(Len(ref_aligned), i + CtxRadius + 1)
    IN  [pos |-> i, ref |-> r, alt |-> q, type |-> VType(r, q),
         ctx_ref |-> Slice(ref_aligned, start, end),
         ctx_query |-> Slice(query_aligned, start, Min(Len(query_aligned), end))]

\* a variant of VariantAt whose window ends one column early: [i-10 : i+10]
VariantAt_short_window(ref_aligned, query_aligned, i) ==
    LET r == ref_aligned[i + 1]
        q == query_aligned[i + 1]
        start == Max(0, i - CtxRadius)
        end == Min(Len(ref_aligned), i + CtxRadius)
    IN  [pos |-> i + 1, ref |-> r, alt |-> q, type |-> VType(r, q),
         ctx_ref |-> Slice(ref_aligned, start, end),
         ctx_query |-> Slice(query_aligned, start, Min(Len(query_aligned), end))]

\* the record appended for 0-based column i
VariantAt(ref_aligned, query_aligned, i) ==
    LET r == ref_aligned[i + 1]
        q == query_aligned[i + 1]
        start == Max(0, i - CtxRadius)
        end == Min(Len(ref_aligned), i + CtxRadius + 1)
    IN  [pos |-> i + 1, ref |-> r, alt |-> q, type |-> VType(r, q),
         ctx_ref |-> Slice(ref_aligned, start, end),
         ctx_query |-> Slice(query_aligned, start, Min(Len(query_aligned), end))]

\* the loop over enumerate(zip(ref_aligned, query_aligned)) from column i on;
\* acc carries variants, ts and tv
RECURSIVE Walk(_, _, _, _)
Walk(ref_aligned, query_aligned, i, acc) ==
    IF i >= Min(Len(ref_aligned), Len(query_aligned)) THEN acc
    ELSE
        LET r == ref_aligned[i + 1]
            q == query_aligned[i + 1]
            snp == r # q /\ VType(r, q) = "SNP"
        IN  Walk(ref_aligned, query_aligned, i + 1,
                 IF r # q
                 THEN [variants |-> Append(acc.variants, VariantAt(ref_aligned, query_aligned, i)),
                       ts |-> IF snp /\ IsTransition(r, q) THEN acc.ts + 1 ELSE acc.ts,
                       tv |-> IF snp /\ ~IsTransition(r, q) THEN acc.tv + 1 ELSE acc.tv]
                 ELSE acc)

\* a variant of AttachStats that attaches the stats to every record
AttachStats_all(variants, ts, tv) ==
    LET s == [ts |-> ts, tv |-> tv, ratio |-> IF tv > 0 THEN round_ratio(ts, tv) ELSE 0]
    IN  [k \in DOMAIN variants |->
            [pos |-> variants[k].pos, ref |-> variants[k].ref, alt |-> variants[k].alt,
             type |-> variants[k].type, ctx_ref |-> variants[k].ctx_ref,
             ctx_query |-> variants[k].ctx_query, stats |-> s]]

\* variants[0]['stats'] = {...}: the first record gains a stats field
AttachStats(variants, ts, tv) ==
    IF Len(variants) = 0 THEN variants
    ELSE
        LET s == [ts |-> ts, tv |-> tv, ratio |-> IF tv > 0 THEN round_ratio(ts, tv) ELSE 0]
            v == variants[1]
        IN  [variants EXCEPT ![1] =
                [pos |-> v.pos, ref |-> v.ref, alt |-> v.alt, type |-> v.type,
                 ctx_ref |-> v.ctx_ref, ctx_query |-> v.ctx_query, stats |-> s]]

\* call_variants.  format() raising (an engine whose alignments know no
\* "fasta" format) is caught by the except of call_variants, which prints and
\* returns the list as it stands: empty.  Fewer than four lines: empty too.
call_variants(alignment, format_raises) ==
    IF format_raises THEN [variants |-> <<>>, counts |-> <<>>, printed |-> TRUE]
    ELSE
        LET lines == format_fasta(alignment)
        IN  IF Len(lines) >= 4
            THEN LET acc == Walk(lines[2], lines[4], 0, [variants |-> <<>>, ts |-> 0, tv |-> 0])
                 IN  [variants |-> AttachStats(acc.variants, acc.ts, acc.tv),
                      counts |-> <<[ts |-> acc.ts, tv |-> acc.tv]>>, printed |-> FALSE]
            ELSE [variants |-> <<>>, counts |-> <<>>, printed |-> FALSE]

\* ------------------------------------------------------------------ signals
LogSig(m) == [sig |-> "log", msg |-> m]

ProgressSig(n) == [sig |-> "progress", n |-> n]

ResultSig(l) == [sig |-> "result", list |-> l]

FinishedSig(b) == [sig |-> "finished", ok |-> b]

\* -------------------------------------------------------------------- state
VARIABLES
    ref_file,       \* what self.ref_file names
    query_file,     \* what self.query_file names
    pc,             \* where run is
    ref_seq,        \* run's ref_seq
    query_seq,      \* run's query_seq
    best_aln,       \* run's best_aln: <<>> until aligned, then <<alignment>>
    mutations,      \* run's mutations
    signals,        \* the signals emitted so far, in order
    aligner_calls,  \* how often aligner.align was invoked
    counts,         \* the counters ts and tv of call_variants, once it set them
    printed,        \* whether call_variants printed "Variant Parsing Error"
    engine,         \* the alignment the aligner returned first, per pair of inputs
    peer,           \* a second VariantWorker, not scheduled: its fields; <<>> if none
    cur,            \* which of the two workers the fields above belong to
    abandoned,      \* whether the caller asked the running thread to stop
    current_mutations,  \* VariantView.current_mutations
    vcf_file,       \* the lines of the file export_vcf wrote last
    msg_box,        \* the titles of the message boxes shown, in order
    ref_path,       \* VariantView.ref_path: the file chosen, or NoPath
    query_path,     \* VariantView.query_path
    btn_run,        \* whether the Run button is enabled
    btn_export,     \* whether the Export button is enabled
    table,          \* the table: its row count and the rows that were filled
    lbl_stats,      \* the statistics label: <<>> for "--", else <<stats>>
    map_variants,   \* MutationMapWidget.variants
    conn,           \* per worker: whether its signals reach the view, and how
                    \* many of them the view has handled
    newest,         \* which worker self.worker refers to; 0 before the first run
    runs,           \* how many runs run_analysis has started
    shown,          \* for the last display_results call: whether the result it
                    \* got came from the worker that was self.worker then
    inspector       \* what show_mutation_details put into the two context labels

\* the state of VariantView and its widgets
view == <<ref_path, query_path, btn_run, btn_export, table, lbl_stats, map_variants,
          conn, newest, runs, shown, inspector>>

vars == <<ref_file, query_file, pc, ref_seq, query_seq, best_aln, mutations, signals,
          aligner_calls, counts, printed, engine, peer, cur, abandoned,
          current_mutations, vcf_file, msg_box, view>>

\* what no statement of run touches
outside == <<peer, cur, abandoned, current_mutations, vcf_file, msg_box, view>>

\* no file chosen yet (None)
NoPath == [kind |-> "none", records |-> <<>>]

\* self.table.setRowCount(50): the empty grid
BlankRows == 50

\* VariantView.__init__: nothing chosen, both buttons disabled, an empty grid,
\* "Ts/Tv Ratio: --", no worker
InitView ==
    /\ ref_path = NoPath
    /\ query_path = NoPath
    /\ btn_run = FALSE
    /\ btn_export = FALSE
    /\ table = [rowCount |-> BlankRows, items |-> <<>>]
    /\ lbl_stats = <<>>
    /\ map_variants = <<>>
    /\ conn = [id \in {1, 2} |-> [connected |-> FALSE, handled |-> 0]]
    /\ newest = 0
    /\ runs = 0
    /\ shown = <<>>
    /\ inspector = <<>>

\* one worker, nothing abandoned, a view that has shown and exported nothing
InitOutside ==
    /\ engine = <<>>
    /\ peer = <<>>
    /\ cur = 1
    /\ abandoned = FALSE
    /\ current_mutations = <<>>
    /\ vcf_file = <<>>
    /\ msg_box = <<>>
    /\ InitView

Emit(sigs) == signals' = signals \o sigs

\* run up to the try block
SigStart == <<LogSig("init"), ProgressSig(5)>>

Init ==
    /\ ref_file \in Files
    /\ query_file \in Files
    /\ pc = "start"
    /\ ref_seq = None
    /\ query_seq = None
    /\ best_aln = <<>>
    /\ mutations = <<>>
    /\ signals = <<>>
    /\ aligner_calls = 0
    /\ counts = <<>>
    /\ printed = FALSE
    /\ InitOutside

RunStart ==
    /\ pc = "start"
    /\ Emit(SigStart)
    /\ pc' = "load"
    /\ UNCHANGED <<ref_file, query_file, ref_seq, query_seq, best_aln, mutations,
                   aligner_calls, counts, printed, engine,
                   outside>>

\* a variant of SigCouldNotRead that returns without finished_signal
SigCouldNotRead_silent == <<LogSig("err_read")>>

\* if not ref_seq or not query_seq: the error log, finished_signal(False)
SigCouldNotRead == <<LogSig("err_read"), FinishedSig(FALSE)>>

\* except Exception: the critical-error log, finished_signal(False)
SigCritical == <<LogSig("critical"), FinishedSig(FALSE)>>

\* what run emits between loading and aligning
SigLoaded(ref) ==
    (IF Len(ref) > LargeGenome THEN <<LogSig("warn_large")>> ELSE <<>>)
        \o <<ProgressSig(20), LogSig("aligning")>>

\* 1. Load Sequences
RunLoad ==
    /\ pc = "load"
    /\ ref_seq' = read_fasta(ref_file)
    /\ query_seq' = read_fasta(query_file)
    /\ IF ref_seq'.raised \/ query_seq'.raised
       THEN /\ Emit(<<LogSig("loading")>> \o SigCritical)
            /\ pc' = "done"
       ELSE IF CouldNotRead(ref_seq', query_seq')
       THEN /\ Emit(<<LogSig("loading")>> \o SigCouldNotRead)
            /\ pc' = "done"
       ELSE /\ Emit(<<LogSig("loading")>> \o SigLoaded(ref_seq'.s))
            /\ pc' = "align"
    /\ UNCHANGED <<ref_file, query_file, best_aln, mutations, aligner_calls, counts, printed, engine,
                   outside>>

\* 2-3. aligner.align(ref_seq[:50000], query_seq[:50000]); alignment[0].
\* Which of several optimal alignments comes first is the engine's choice; it
\* is the same one whenever the same two sequences are aligned again.
RunAlign ==
    /\ pc = "align"
    /\ aligner_calls' = aligner_calls + 1
    /\ LET key == <<Take(ref_seq.s, AlignCap), Take(query_seq.s, AlignCap)>>
       IN  IF key \in DOMAIN engine
           THEN best_aln' = <<engine[key]>> /\ engine' = engine
           ELSE \E a \in align(key[1], key[2]) :
                    best_aln' = <<a>> /\ engine' = engine @@ (key :> a)
    /\ Emit(<<ProgressSig(60), LogSig("aligned")>>)
    /\ pc' = "call"
    /\ UNCHANGED <<ref_file, query_file, ref_seq, query_seq, mutations, counts, printed,
                   outside>>

\* the aligner raises (out of memory, too many paths): except Exception
RunAlignRaises ==
    /\ pc = "align"
    /\ aligner_calls' = aligner_calls + 1
    /\ Emit(SigCritical)
    /\ pc' = "done"
    /\ UNCHANGED <<ref_file, query_file, ref_seq, query_seq, best_aln, mutations, counts,
                   printed, engine,
                   outside>>

\* 4. mutations = self.call_variants(best_aln)
RunCallVariants ==
    /\ pc = "call"
    /\ \E format_raises \in BOOLEAN :
           LET out == call_variants(best_aln[1], format_raises)
           IN  /\ mutations' = out.variants
               /\ counts' = out.counts
               /\ printed' = out.printed
    /\ pc' = "emit"
    /\ UNCHANGED <<ref_file, query_file, ref_seq, query_seq, best_aln, signals, aligner_calls, engine,
                   outside>>

\* the emissions that end a run that got this far
RunEmit ==
    /\ pc = "emit"
    /\ Emit(<<ProgressSig(100), ResultSig(mutations), LogSig("done"), FinishedSig(TRUE)>>)
    /\ pc' = "done"
    /\ UNCHANGED <<ref_file, query_file, ref_seq, query_seq, best_aln, mutations,
                   aligner_calls, counts, printed, engine,
                   outside>>

Next == RunStart \/ RunLoad \/ RunAlign \/ RunAlignRaises \/ RunCallVariants \/ RunEmit

Spec == Init /\ [][Next]_vars

\* ------------------------------------------------- the extractor taken alone
\* Alignments handed to call_variants directly: two rows of equal length, no
\* column of two gaps, neither row all gaps.
Degap(row) == SelectSeq(row, LAMBDA c : c # Gap)

Gapped == {"A", "C", "G", "T", "N", Gap}

AllCols == {c \in Gapped \X Gapped : ~(c[1] = Gap /\ c[2] = Gap)}

\* a match, both kinds of transition, a transversion, an insertion, a deletion
SomeCols == {<<"A", "A">>, <<"A", "G">>, <<"C", "T">>, <<"A", "C">>, <<Gap, "A">>, <<"A", Gap>>}

AlnOfCols(cols) == Aln([k \in 1..Len(cols) |-> cols[k][1]], [k \in 1..Len(cols) |-> cols[k][2]])

\* L matching columns A C G T A ... with column p replaced by col
OneVariantAln(L, p, col) ==
    LET bg(k) == Bases[(k % 4) + 1]
    IN  Aln([k \in 1..L |-> IF k = p THEN col[1] ELSE bg(k)],
            [k \in 1..L |-> IF k = p THEN col[2] ELSE bg(k)])

ExtractInputs(short, long) ==
    LET drawn == {AlnOfCols(cols) : cols \in SeqsOf(AllCols, 1, 2) \cup SeqsOf(SomeCols, 3, short)}
                   \cup UNION {{OneVariantAln(L, p, col) :
                                    p \in 1..L, col \in {c \in AllCols : c[1] # c[2]}}
                                   : L \in (short + 1)..long}
    IN  {a \in drawn : Degap(a.target) # <<>> /\ Degap(a.query) # <<>>}

\* run has loaded the two ungapped rows and aligned them to `a'
InitExtract ==
    \E a \in ExtractInputs(MaxAlnLen, MaxLongLen) :
        /\ ref_file = Fasta(<<Degap(a.target)>>)
        /\ query_file = Fasta(<<Degap(a.query)>>)
        /\ pc = "call"
        /\ ref_seq = Some(Degap(a.target))
        /\ query_seq = Some(Degap(a.query))
        /\ best_aln = <<a>>
        /\ mutations = <<>>
        /\ signals = SigStart \o <<LogSig("loading")>> \o SigLoaded(Degap(a.target))
                        \o <<ProgressSig(60), LogSig("aligned")>>
        /\ aligner_calls = 1
        /\ counts = <<>>
        /\ printed = FALSE
        /\ InitOutside

NextExtract == RunCallVariants \/ RunEmit

SpecExtract == InitExtract /\ [][NextExtract]_vars

\* ----------------------------------------------------------------- claims
\* call_variants has returned and had the two rows in hand
Extracted == pc \in {"emit", "done"} /\ best_aln # <<>> /\ ~printed

RefAligned == best_aln[1].target

QueryAligned == best_aln[1].query

\* the 0-based columns where the two rows differ
DiffCols == {i \in 0..(Len(RefAligned) - 1) : RefAligned[i + 1] # QueryAligned[i + 1]}

Recs == 1..Len(mutations)

\* C1: call_variants returns exactly one record per column i where the rows
\* differ and none for an equal column, in strictly ascending column order,
\* each with pos = i + 1, the 1-based alignment column.
C1_ColumnCoverage ==
    Extracted =>
        /\ Len(mutations) = Cardinality(DiffCols)
        /\ \A k \in Recs : mutations[k].pos - 1 \in DiffCols
        /\ \A k \in Recs : k > 1 => mutations[k - 1].pos < mutations[k].pos
        /\ \A i \in DiffCols : \E k \in Recs : mutations[k].pos = i + 1

\* C1's case: two records, the second past an equal column
C1_Witness ==
    /\ Extracted
    /\ Len(mutations) = 2
    /\ mutations[2].pos = 4
    /\ Cardinality(DiffCols) < Len(RefAligned)

\* C2: the record of column i has ref = ref_aligned[i], alt = query_aligned[i]
\* and kind Insertion if ref is the gap, Deletion if alt is the gap, else SNP.
C2_KindClassification ==
    Extracted =>
        \A k \in Recs :
            LET v == mutations[k]
            IN  /\ v.ref = RefAligned[v.pos]
                /\ v.alt = QueryAligned[v.pos]
                /\ v.type \in {"Insertion", "Deletion", "SNP"}
                /\ v.ref = Gap => v.type = "Insertion"
                /\ v.alt = Gap => v.type = "Deletion"
                /\ (v.ref # Gap /\ v.alt # Gap) => v.type = "SNP"

\* C2's case: a list holding all three kinds
C2_Witness ==
    /\ Extracted
    /\ \A kind \in {"Insertion", "Deletion", "SNP"} : \E k \in Recs : mutations[k].type = kind

\* the Substitution records that are transitions: both bases purines or both
\* pyrimidines
TransitionRecs ==
    {k \in Recs : /\ mutations[k].type = "SNP"
                  /\ \/ {mutations[k].ref, mutations[k].alt} \subseteq {"A", "G"}
                     \/ {mutations[k].ref, mutations[k].alt} \subseteq {"C", "T"}}

SubstitutionRecs == {k \in Recs : mutations[k].type = "SNP"}

\* C3: transitions counts the Substitution records with both bases in {A,G}
\* or both in {C,T}, transversions all other Substitution records; the two
\* sum to the number of Substitution records and count no indel.  The
\* counters attached to the first record are these.
C3_TsTvPartition ==
    (Extracted /\ counts # <<>>) =>
        /\ counts[1].ts = Cardinality(TransitionRecs)
        /\ counts[1].tv = Cardinality(SubstitutionRecs \ TransitionRecs)
        /\ counts[1].ts + counts[1].tv = Cardinality(SubstitutionRecs)
        /\ Len(mutations) > 0 =>
               /\ mutations[1].stats.ts = counts[1].ts
               /\ mutations[1].stats.tv = counts[1].tv

\* C3's case: a C/T transition, a transversion and an indel in one list
C3_Witness ==
    /\ Extracted
    /\ counts # <<>>
    /\ counts[1].ts > 0
    /\ counts[1].tv > 0
    /\ \E k \in TransitionRecs : mutations[k].ref = "C"
    /\ \E k \in Recs : mutations[k].type # "SNP"

\* the statistics a result list carries: those of its first record
StatsOf(list) == IF Len(list) > 0 THEN <<list[1].stats>> ELSE <<>>

\* C4 as stated: the reported ratio is the quotient transitions /
\* transversions when transversions > 0, and 0 when transversions = 0.
C4_ExactQuotient ==
    (Extracted /\ StatsOf(mutations) # <<>>) =>
        LET s == StatsOf(mutations)[1]
        IN  /\ s.tv > 0 => s.ratio * s.tv = RatioScale * s.ts
            /\ s.tv = 0 => s.ratio = 0

\* C4 amended: the reported ratio is the quotient rounded to two decimals
\* (the nearest hundredth) when transversions > 0, and 0 when
\* transversions = 0.
C4_RoundedQuotient ==
    (Extracted /\ StatsOf(mutations) # <<>>) =>
        LET s == StatsOf(mutations)[1]
        IN  /\ s.tv > 0 =>
                   /\ 2 * (s.ratio * s.tv - RatioScale * s.ts) <= s.tv
                   /\ 2 * (RatioScale * s.ts - s.ratio * s.tv) <= s.tv
            /\ s.tv = 0 => s.ratio = 0

\* C4's case: two transitions over three transversions, 0.67
C4_Witness ==
    /\ Extracted
    /\ StatsOf(mutations) # <<>>
    /\ StatsOf(mutations)[1].ts = 2
    /\ StatsOf(mutations)[1].tv = 3
    /\ StatsOf(mutations)[1].ratio = 67

\* C5: for the record of 0-based column i of an alignment of length L,
\* ctx_ref = ref_aligned[max(0,i-10) : min(L,i+11)] and ctx_query the same
\* slice of query_aligned: equal lengths, at most 21, exactly 21 when
\* 10 <= i <= L-11, truncated and never padded near either end.
C5_ContextWindow ==
    Extracted =>
        \A k \in Recs :
            LET v == mutations[k]
                i == v.pos - 1
                L == Len(RefAligned)
                lo == IF i - CtxRadius > 0 THEN i - CtxRadius ELSE 0
                hi == IF i + CtxRadius + 1 < L THEN i + CtxRadius + 1 ELSE L
            IN  /\ v.ctx_ref = [j \in 1..(hi - lo) |-> RefAligned[lo + j]]
                /\ v.ctx_query = [j \in 1..(hi - lo) |-> QueryAligned[lo + j]]
                /\ Len(v.ctx_ref) = Len(v.ctx_query)
                /\ Len(v.ctx_ref) <= 2 * CtxRadius + 1
                /\ (CtxRadius <= i /\ i <= L - CtxRadius - 1) => Len(v.ctx_ref) = 2 * CtxRadius + 1
                /\ i < CtxRadius => Len(v.ctx_ref) = Min(L, i + CtxRadius + 1)
                /\ i > L - CtxRadius - 1 => Len(v.ctx_ref) = L - lo

\* C5's case: a full window of 21 in an alignment longer than 21, the
\* variant in its middle
C5_Witness ==
    /\ Extracted
    /\ Len(RefAligned) > 2 * CtxRadius + 1
    /\ \E k \in Recs : /\ Len(mutations[k].ctx_ref) = 2 * CtxRadius + 1
                       /\ mutations[k].ctx_ref[CtxRadius + 1] = mutations[k].ref
                       /\ mutations[k].ctx_query[CtxRadius + 1] = mutations[k].alt

\* the run is over and its last signal is finished_signal(b)
FinishedWith(b) ==
    /\ pc = "done"
    /\ Len(signals) > 0
    /\ signals[Len(signals)] = [sig |-> "finished", ok |-> b]

\* the lists delivered by result_signal, in order
Delivered ==
    LET sent == SelectSeq(signals, LAMBDA s : s.sig = "result")
    IN  [k \in 1..Len(sent) |-> sent[k].list]

\* what a run emits when the loader yields no sequence
LoadFailureSignals ==
    << [sig |-> "log", msg |-> "init"], [sig |-> "progress", n |-> 5],
       [sig |-> "log", msg |-> "loading"], [sig |-> "log", msg |-> "err_read"],
       [sig |-> "finished", ok |-> FALSE] >>

\* C6 as stated: identical reference and query give an empty variant list
\* together with the statistics transitions = 0, transversions = 0, ratio = 0.
C6_IdenticalZeroStats ==
    (FinishedWith(TRUE) /\ ~printed /\ ref_seq.s = query_seq.s) =>
        /\ Len(Delivered) = 1
        /\ Delivered[1] = <<>>
        /\ StatsOf(Delivered[1]) = <<[ts |-> 0, tv |-> 0, ratio |-> 0]>>

\* the path holds no file, an unreadable file, or a file without a record
NoRecord(file) == file.kind \in {"missing", "unreadable"} \/ Len(file.records) = 0

\* C7: when read_fasta yields None for the reference or the query file, run
\* logs the read error and emits finished_signal(False); it never invokes the
\* aligner, never emits result_signal, and the exception handler of run is
\* not entered.
C7_LoadFailureHandled ==
    (NoRecord(ref_file) \/ NoRecord(query_file)) =>
        /\ pc \in {"start", "load", "done"}
        /\ aligner_calls = 0
        /\ best_aln = <<>>
        /\ Delivered = <<>>
        /\ \A k \in 1..Len(signals) : signals[k] # [sig |-> "log", msg |-> "critical"]
        /\ pc = "done" => signals = LoadFailureSignals

\* C7's case: an unreadable reference beside a good query, the run over
C7_Witness ==
    /\ pc = "done"
    /\ ref_file.kind = "unreadable"
    /\ ~NoRecord(query_file)
    /\ Len(query_file.records[1]) > 0

\* C8 as stated: a finished run either delivered the full list, a record for
\* every differing column, and reports success, or delivered nothing and
\* reports failure.
C8_AllOrNothing ==
    pc = "done" =>
        \/ /\ FinishedWith(TRUE)
           /\ best_aln # <<>>
           /\ Len(Delivered) = 1
           /\ Len(Delivered[1]) = Cardinality(DiffCols)
        \/ /\ FinishedWith(FALSE)
           /\ Delivered = <<>>

\* both files hold a record, and the first record of one has no sequence
EmptyRecord ==
    /\ ~NoRecord(ref_file)
    /\ ~NoRecord(query_file)
    /\ Len(ref_file.records[1]) = 0 \/ Len(query_file.records[1]) = 0

\* C9 as stated: an empty loaded sequence fails the run without variants, and
\* the error reported differs from the one of a loader failure.
C9_InvalidInputDistinct ==
    (pc = "done" /\ EmptyRecord) =>
        /\ FinishedWith(FALSE)
        /\ Delivered = <<>>
        /\ mutations = <<>>
        /\ signals # LoadFailureSignals

\* C9 amended: an empty loaded sequence fails the run before the aligner is
\* invoked and without variants, and the run reports exactly what it reports
\* for a loader failure: the same error log, finished_signal(False).
C9_EmptyIsReadError ==
    (pc = "done" /\ EmptyRecord) =>
        /\ FinishedWith(FALSE)
        /\ Delivered = <<>>
        /\ mutations = <<>>
        /\ aligner_calls = 0
        /\ signals = LoadFailureSignals

\* C9's case: a header-only reference beside a query with a sequence
C9_Witness ==
    /\ pc = "done"
    /\ EmptyRecord
    /\ Len(ref_file.records[1]) = 0
    /\ Len(query_file.records[1]) > 0

\* s[:AlignCap], element by element
Capped(s) == [k \in 1..(IF Len(s) < AlignCap THEN Len(s) ELSE AlignCap) |-> s[k]]

\* C10: the alignment is global: the reference row without its gaps is the
\* truncated reference sequence and the query row without its gaps is the
\* truncated query sequence.
C10_GlobalAlignment ==
    best_aln # <<>> =>
        /\ Degap(RefAligned) = Capped(ref_seq.s)
        /\ Degap(QueryAligned) = Capped(query_seq.s)

\* C10's case: a truncated reference aligned with gaps to a shorter query
C10_Witness ==
    /\ best_aln # <<>>
    /\ Len(ref_seq.s) > AlignCap
    /\ Len(query_seq.s) < AlignCap
    /\ \E k \in 1..Len(QueryAligned) : QueryAligned[k] = Gap
    /\ QueryAligned[1] # Gap

\* the state a column is in: a gap in the query row, a gap in the reference
\* row, or a pair of characters
ColumnState(r, q) == IF q = Gap THEN "X" ELSE IF r = Gap THEN "Y" ELSE "M"

\* the score of columns k.. of two rows, the column before being in state prev:
\* +1 for a match, -1 for a mismatch, -2 for the first position of a gap and
\* -1 for each further position of the same gap
RECURSIVE ScoreFrom(_, _, _, _)
ScoreFrom(t, q, k, prev) ==
    IF k > Len(t) THEN 0
    ELSE
        LET s == ColumnState(t[k], q[k])
            c == IF s = "M" THEN (IF t[k] = q[k] THEN match_score ELSE mismatch_score)
                 ELSE IF s = prev THEN extend_gap_score ELSE open_gap_score
        IN  c + ScoreFrom(t, q, k + 1, s)

AlnScore(a) == ScoreFrom(a.target, a.query, 1, "M")

\* for every cell (i, j), the pairs <<score, last state>> of ALL global
\* alignments of ref[1..i] with qry[1..j], none pruned
RECURSIVE FillAllScores(_, _, _, _)
FillAllScores(T, ref, qry, k) ==
    LET w == Len(qry) + 1
        i == k \div w
        j == k % w
        gap(p, s) == IF p[2] = s THEN extend_gap_score ELSE open_gap_score
        here ==
            IF i = 0 /\ j = 0 THEN {<<0, "M">>}
            ELSE
                (IF i > 0 /\ j > 0
                 THEN {<<p[1] + (IF ref[i] = qry[j] THEN match_score ELSE mismatch_score), "M">>
                         : p \in T[<<i - 1, j - 1>>]}
                 ELSE {})
                \cup (IF i > 0 THEN {<<p[1] + gap(p, "X"), "X">> : p \in T[<<i - 1, j>>]} ELSE {})
                \cup (IF j > 0 THEN {<<p[1] + gap(p, "Y"), "Y">> : p \in T[<<i, j - 1>>]} ELSE {})
    IN  IF k = (Len(ref) + 1) * w THEN T
        ELSE FillAllScores(T @@ (<<i, j>> :> here), ref, qry, k + 1)

\* the scores of all global alignments of ref with qry
GlobalScores(ref, qry) ==
    {p[1] : p \in FillAllScores(<<>>, ref, qry, 0)[<<Len(ref), Len(qry)>>]}

\* C11: the alignment used for variant calling is optimal under match +1,
\* mismatch -1, gap open -2, gap extend -1: no global alignment of the same
\* two (truncated) sequences scores strictly higher.  (Stated where best_aln
\* is handed to call_variants; nothing assigns it afterwards.)
C11_OptimalAlignment ==
    pc = "call" =>
        \A x \in GlobalScores(Capped(ref_seq.s), Capped(query_seq.s)) : x <= AlnScore(best_aln[1])

\* C11's case: the best alignment holds a gap of two positions beside a
\* mismatch, and some global alignment scores lower
C11_Witness ==
    /\ pc = "call"
    /\ \E k \in 1..(Len(RefAligned) - 1) : QueryAligned[k] = Gap /\ QueryAligned[k + 1] = Gap
    /\ \E k \in 1..Len(RefAligned) :
           RefAligned[k] # Gap /\ QueryAligned[k] # Gap /\ RefAligned[k] # QueryAligned[k]
    /\ \E x \in GlobalScores(Capped(ref_seq.s), Capped(query_seq.s)) : x < AlnScore(best_aln[1])

\* the two rows call_variants walks: lines[1] and lines[3] of the FASTA text
RowsWalked == <<format_fasta(best_aln[1])[2], format_fasta(best_aln[1])[4]>>

\* C12: the two aligned rows that variant extraction walks have equal length,
\* so the pairwise walk pairs every column of one with a column of the other.
C12_EqualRowLength ==
    best_aln # <<>> =>
        /\ Len(RowsWalked[1]) = Len(RowsWalked[2])
        /\ DOMAIN RowsWalked[1] = DOMAIN RowsWalked[2]
        /\ Extracted => \A k \in Recs : mutations[k].pos \in DOMAIN RowsWalked[1]

\* C12's case: rows of equal length over sequences of different length
C12_Witness ==
    /\ Extracted
    /\ Len(Capped(ref_seq.s)) < Len(Capped(query_seq.s))
    /\ Len(RowsWalked[1]) = Len(RowsWalked[2])
    /\ Len(mutations) > 1

\* the keys variants.append gives a record (lines 110-117)
ExtractionFields == {"pos", "ref", "alt", "type", "ctx_ref", "ctx_query"}

\* the records as the loop appended them, before the statistics are attached
AsExtracted ==
    Walk(RowsWalked[1], RowsWalked[2], 0, [variants |-> <<>>, ts |-> 0, tv |-> 0]).variants

\* the six extraction fields of the returned record are those of the appended
KeepsExtraction(returned, appended) ==
    /\ ExtractionFields \subseteq DOMAIN returned
    /\ \A f \in ExtractionFields : returned[f] = appended[f]

\* C14 as stated: after call_variants returns, every record, the first
\* included, consists of exactly the six extraction fields with the values
\* given at extraction.
C14_NoRecordMutated ==
    Extracted =>
        LET appended == AsExtracted
        IN  /\ Len(mutations) = Len(appended)
            /\ \A k \in Recs :
                  /\ DOMAIN mutations[k] = ExtractionFields
                  /\ KeepsExtraction(mutations[k], appended[k])

\* C14, amended: every record keeps its six extraction fields and values; the
\* records after the first consist of exactly these, and the first record of
\* a non-empty list has gained one more field, stats.
C14_StatsOnFirstOnly ==
    Extracted =>
        LET appended == AsExtracted
        IN  /\ Len(mutations) = Len(appended)
            /\ \A k \in Recs :
                  /\ KeepsExtraction(mutations[k], appended[k])
                  /\ DOMAIN mutations[k] = IF k = 1 THEN ExtractionFields \cup {"stats"}
                                           ELSE ExtractionFields

\* C14's case: a returned list of several records, the first carrying stats
C14_Witness ==
    /\ Extracted
    /\ Len(mutations) >= 3
    /\ "stats" \in DOMAIN mutations[1]
    /\ "stats" \notin DOMAIN mutations[2]

\* ------------------------------------------------------------ loader alone
\* read_fasta over FASTA text: files of up to MaxLines lines that begin with
\* a header line; a later header opens a later record
MaxLines == 5

LinePalette == { <<">">>, <<"A", "c">>, <<"g">>, <<"T">>, <<>> }

LineFiles ==
    {TextFile(<< <<">">> >> \o rest) : rest \in SeqsOf(LinePalette, 0, MaxLines - 1)}

InitLoad ==
    /\ ref_file \in LineFiles
    /\ query_file \in {f \in LineFiles : Len(f.lines) <= 2}
    /\ pc = "start"
    /\ ref_seq = None
    /\ query_seq = None
    /\ best_aln = <<>>
    /\ mutations = <<>>
    /\ signals = <<>>
    /\ aligner_calls = 0
    /\ counts = <<>>
    /\ printed = FALSE
    /\ InitOutside

NextLoad == RunStart \/ RunLoad

SpecLoad == InitLoad /\ [][NextLoad]_vars

Loaded == pc \in {"align", "done"}

\* the position of the second header line, or one past the last line
NextHeader(lines) ==
    LET later == {k \in 2..Len(lines) : IsHeader(lines[k])}
    IN  IF later = {} THEN Len(lines) + 1 ELSE CHOOSE k \in later : \A j \in later : k <= j

\* the characters of lines[from..to], in order
RECURSIVE Concat(_, _, _)
Concat(lines, from, to) ==
    IF from > to THEN <<>> ELSE lines[from] \o Concat(lines, from + 1, to)

\* the text of the first record of a file that begins with a header
FirstRecordText(lines) == Concat(lines, 2, NextHeader(lines) - 1)

LowerCase == {"a", "c", "g", "t"}

\* b is a, or a's capital letter
CapitalOf(a, b) ==
    IF a \in LowerCase
    THEN <<a, b>> \in {<<"a", "A">>, <<"c", "C">>, <<"g", "G">>, <<"t", "T">>}
    ELSE a = b

\* C15: for FASTA content with one or more records read_fasta returns the
\* uppercase of the first record's sequence only: the non-header lines between
\* the first header and the next header or the end of the file, concatenated;
\* no character of a later record appears in it.
C15_FirstRecordUppercased ==
    Loaded =>
        LET text == FirstRecordText(ref_file.lines)
        IN  /\ ~ref_seq.none
            /\ Len(ref_seq.s) = Len(text)
            /\ \A k \in 1..Len(text) : CapitalOf(text[k], ref_seq.s[k])
            /\ \A k \in 1..Len(ref_seq.s) : ref_seq.s[k] \notin LowerCase

\* C15's case: a first record of two lines with a lower-case letter, followed
\* by a second record whose characters are not in the result
C15_Witness ==
    /\ Loaded
    /\ ref_file.lines = << <<">">>, <<"A", "c">>, <<"g">>, <<">">>, <<"T">> >>
    /\ ref_seq = Some(<<"A", "C", "G">>)

\* the positions of the signals of one kind in what a run has emitted
SignalsOf(kind) == {k \in 1..Len(signals) : signals[k].sig = kind}

\* the positions of one log message
LogsOf(msg) == {k \in 1..Len(signals) : signals[k] = LogSig(msg)}

ErrorLogs == {LogSig("err_read"), LogSig("critical")}

\* C20: a run emits finished_signal exactly once, as its last signal;
\* result_signal at most once and only in a run that ends with
\* finished_signal(True); a failed load or alignment ends the run with an
\* error log followed by finished_signal(False), with no second load and no
\* second alignment.
C20_TerminalSignals ==
    /\ Cardinality(SignalsOf("finished")) = IF pc = "done" THEN 1 ELSE 0
    /\ pc = "done" => SignalsOf("finished") = {Len(signals)}
    /\ Cardinality(SignalsOf("result")) <= 1
    /\ SignalsOf("result") # {} => FinishedWith(TRUE)
    /\ FinishedWith(FALSE) =>
          /\ Len(signals) >= 2
          /\ signals[Len(signals) - 1] \in ErrorLogs
          /\ Cardinality(UNION {LogsOf(e.msg) : e \in ErrorLogs}) = 1
          /\ SignalsOf("result") = {}
    /\ Cardinality(LogsOf("loading")) <= 1
    /\ aligner_calls <= 1
    /\ Cardinality(LogsOf("err_read")) = 1 => aligner_calls = 0

\* C20's case: a run whose alignment failed has ended with the critical log
\* and finished_signal(False), after one load and one alignment attempt
C20_Witness ==
    /\ FinishedWith(FALSE)
    /\ aligner_calls = 1
    /\ Cardinality(LogsOf("loading")) = 1
    /\ signals[Len(signals) - 1] = LogSig("critical")

\* ------------------------------------------------------------- two workers
\* Two VariantWorker objects whose run methods execute in two threads.  The
\* variables ref_file .. printed are the fields and locals of the worker that
\* is executing; peer holds those of the other; Switch hands the processor
\* over between any two steps.
Prefix(n) == [k \in 1..n |-> IF k % 2 = 1 THEN "A" ELSE "c"]

\* no file, an input shorter than the cap, and one longer in two ways
PairFiles ==
    {Missing, Fasta(<< <<"c">> >>),
     Fasta(<<Prefix(AlignCap) \o <<"A">>>>), Fasta(<<Prefix(AlignCap) \o <<"c">>>>)}

\* VariantWorker(query_file, ref_file): a constructed worker, not yet started
NewWorker(qf, rf) ==
    [ref_file |-> rf, query_file |-> qf, pc |-> "start", ref_seq |-> None,
     query_seq |-> None, best_aln |-> <<>>, mutations |-> <<>>, signals |-> <<>>,
     aligner_calls |-> 0, counts |-> <<>>, printed |-> FALSE]

\* the worker that is executing
Running ==
    [ref_file |-> ref_file, query_file |-> query_file, pc |-> pc, ref_seq |-> ref_seq,
     query_seq |-> query_seq, best_aln |-> best_aln, mutations |-> mutations,
     signals |-> signals, aligner_calls |-> aligner_calls, counts |-> counts,
     printed |-> printed]

\* a variant of Own in which the signal objects, declared in the class body,
\* are one per class: every worker emits into the same receivers
Own_shared_signals(saved, running) == [saved EXCEPT !.signals = running.signals]

\* what a worker finds when it resumes: the attributes of its own instance and
\* its own locals (self.query_file, self.ref_file; the signals bound to self)
Own(saved, running) == saved

InitPair ==
    /\ ref_file \in PairFiles
    /\ query_file \in PairFiles
    /\ pc = "start"
    /\ ref_seq = None
    /\ query_seq = None
    /\ best_aln = <<>>
    /\ mutations = <<>>
    /\ signals = <<>>
    /\ aligner_calls = 0
    /\ counts = <<>>
    /\ printed = FALSE
    /\ engine = <<>>
    /\ \E qf \in PairFiles, rf \in PairFiles : peer = NewWorker(qf, rf)
    /\ cur = 1
    /\ abandoned = FALSE
    /\ current_mutations = <<>>
    /\ vcf_file = <<>>
    /\ msg_box = <<>>
    /\ InitView

\* the scheduler takes the processor from one thread and gives it to the other
Switch ==
    /\ peer.pc \notin {"idle", "done"}
    /\ LET w == Own(peer, Running)
       IN  /\ ref_file' = w.ref_file
           /\ query_file' = w.query_file
           /\ pc' = w.pc
           /\ ref_seq' = w.ref_seq
           /\ query_seq' = w.query_seq
           /\ best_aln' = w.best_aln
           /\ mutations' = w.mutations
           /\ signals' = w.signals
           /\ aligner_calls' = w.aligner_calls
           /\ counts' = w.counts
           /\ printed' = w.printed
    /\ peer' = Running
    /\ cur' = 3 - cur
    /\ UNCHANGED <<engine, abandoned, current_mutations, vcf_file, msg_box, view>>

NextPair == RunStart \/ RunLoad \/ RunAlign \/ RunAlignRaises \/ RunCallVariants \/ RunEmit
                \/ Switch

SpecPair == InitPair /\ [][NextPair]_vars

\* the lists result_signal carried among the signals sigs, in order
DeliveredIn(sigs) ==
    LET sent == SelectSeq(sigs, LAMBDA s : s.sig = "result")
    IN  [k \in 1..Len(sent) |-> sent[k].list]

\* the two workers
Workers == {Running, peer}

\* a worker whose run aligned, obtained the two rows and delivered its list
Succeeded(w) ==
    /\ w.pc = "done"
    /\ w.best_aln # <<>>
    /\ ~w.printed
    /\ Len(DeliveredIn(w.signals)) = 1

\* two workers whose loaded sequences agree up to the cap
AgreeUpToCap(a, b) ==
    /\ Capped(a.ref_seq.s) = Capped(b.ref_seq.s)
    /\ Capped(a.query_seq.s) = Capped(b.query_seq.s)

\* C13: the inputs are truncated to the cap before alignment: two runs whose
\* reference sequences agree on their first 50,000 characters and whose query
\* sequences agree on their first 50,000 characters emit identical variant
\* lists and statistics, whatever follows beyond the cap; a longer input is
\* aligned, not rejected.
C13_TruncationInsensitive ==
    /\ \A a \in Workers, b \in Workers :
          Succeeded(a) /\ Succeeded(b) /\ AgreeUpToCap(a, b) =>
              /\ DeliveredIn(a.signals) = DeliveredIn(b.signals)
              /\ a.counts = b.counts
              /\ a.best_aln = b.best_aln
    /\ \A w \in Workers :
          w.best_aln # <<>> =>
              /\ Len(w.best_aln[1].target) <= 2 * AlignCap
              /\ Degap(w.best_aln[1].target) = Capped(w.ref_seq.s)
              /\ Degap(w.best_aln[1].query) = Capped(w.query_seq.s)

\* C13's case: two finished runs whose references differ beyond the cap only
\* have delivered the same non-empty list
C13_Witness ==
    /\ Succeeded(Running) /\ Succeeded(peer)
    /\ AgreeUpToCap(Running, peer)
    /\ ref_seq.s # peer.ref_seq.s
    /\ Len(ref_seq.s) > AlignCap
    /\ Len(mutations) > 0
    /\ DeliveredIn(signals) = DeliveredIn(peer.signals)

\* s is an initial part of t
IsPrefix(s, t) == Len(s) <= Len(t) /\ s = SubSeq(t, 1, Len(s))

\* the signal sequences a worker with these two files can emit when it runs
\* with no other worker, from start to finish
AloneSignals(rf, qf) ==
    LET r == read_fasta(rf)
        q == read_fasta(qf)
        head == SigStart \o <<LogSig("loading")>>
    IN  IF CouldNotRead(r, q) THEN {head \o SigCouldNotRead}
        ELSE
            LET aligning == head \o SigLoaded(r.s)
            IN  {aligning \o SigCritical}
                    \cup {aligning \o <<ProgressSig(60), LogSig("aligned"), ProgressSig(100),
                                        ResultSig(call_variants(a, raises).variants),
                                        LogSig("done"), FinishedSig(TRUE)>>
                            : a \in align(Take(r.s, AlignCap), Take(q.s, AlignCap)),
                              raises \in BOOLEAN}

\* C18: two workers running concurrently, each on its own pair of files, share
\* no mutable state: under every interleaving of their steps each emits what
\* it emits when run alone, the result and the finished value included.
C18_NoInterference ==
    \A w \in Workers :
        LET alone == AloneSignals(w.ref_file, w.query_file)
        IN  IF w.pc = "done" THEN w.signals \in alone
            ELSE \E s \in alone : IsPrefix(w.signals, s)

\* C18's case: both workers have finished, one with a result and one without,
\* after the second started while the first was still aligning
C18_Witness ==
    /\ pc = "done" /\ peer.pc = "done"
    /\ cur = 2
    /\ Len(DeliveredIn(signals)) = 1
    /\ Len(DeliveredIn(peer.signals)) = 1
    /\ DeliveredIn(signals) # DeliveredIn(peer.signals)
    /\ ref_file # peer.ref_file

\* ------------------------------------------------------ abandoning a task
\* The caller holds the worker (self.worker) and may ask the thread to stop:
\* QThread.requestInterruption(), the request a run method is meant to poll.
\* run polls nothing, so its steps are the same whether asked or not.
InitCancel ==
    /\ ref_file \in PairFiles
    /\ query_file \in PairFiles
    /\ pc = "start"
    /\ ref_seq = None
    /\ query_seq = None
    /\ best_aln = <<>>
    /\ mutations = <<>>
    /\ signals = <<>>
    /\ aligner_calls = 0
    /\ counts = <<>>
    /\ printed = FALSE
    /\ InitOutside

\* the caller abandons a task that has started and not finished
Abandon ==
    /\ pc \in {"load", "align", "call", "emit"}
    /\ ~abandoned
    /\ abandoned' = TRUE
    /\ UNCHANGED <<ref_file, query_file, pc, ref_seq, query_seq, best_aln, mutations,
                   signals, aligner_calls, counts, printed, engine, peer, cur,
                   current_mutations, vcf_file, msg_box, view>>

NextCancel == RunStart \/ RunLoad \/ RunAlign \/ RunAlignRaises \/ RunCallVariants \/ RunEmit
                  \/ Abandon

SpecCancel == InitCancel /\ [][NextCancel]_vars

\* C19: a task abandoned before it finished delivers no result to the caller.
\* (A result is delivered only by the last step of run, so a task abandoned
\* before it finished had delivered none when it was abandoned.)
C19_AbandonedDeliversNothing == abandoned => Len(Delivered) = 0

\* ------------------------------------------------------------ VCF export
\* VariantView.export_vcf.  A line of the file is the sequence of its
\* tab-separated fields, a field the sequence of the pieces written into it.
MaxExports == 2

Digits == <<"0", "1", "2", "3", "4", "5", "6", "7", "8", "9">>

\* str(n) of a natural number, as the f-string renders m['pos']
RECURSIVE Str(_)
Str(n) == IF n < 10 THEN <<Digits[n + 1]>> ELSE Append(Str(n \div 10), Digits[(n % 10) + 1])

\* the three lines written before the loop
VcfHeader ==
    << << <<"##fileformat=VCFv4.2">> >>,
       << <<"##source=MicroGenomePro">> >>,
       << <<"#CHROM">>, <<"POS">>, <<"ID">>, <<"REF">>, <<"ALT">>, <<"INFO">> >> >>

\* a variant of VcfLine with REF and ALT exchanged
VcfLine_swapped(m) ==
    << <<"Genome">>, Str(m.pos), <<".">>, <<m.alt>>, <<m.ref>>, <<"TYPE=", m.type>> >>

\* f"Genome\t{m['pos']}\t.\t{m['ref']}\t{m['alt']}\tTYPE={m['type']}\n"
VcfLine(m) ==
    << <<"Genome">>, Str(m.pos), <<".">>, <<m.ref>>, <<m.alt>>, <<"TYPE=", m.type>> >>

\* everything export_vcf writes when no write fails
export_vcf(muts) == VcfHeader \o [k \in 1..Len(muts) |-> VcfLine(muts[k])]

\* lists display_results may have stored: what call_variants returns for
\* alignments of up to three columns and for long ones with one variant
ExportLists ==
    {call_variants(AlnOfCols(cols), FALSE).variants : cols \in SeqsOf(SomeCols, 0, 3)}
        \cup {call_variants(OneVariantAln(MaxLongLen, p, col), FALSE).variants
                : p \in 1..MaxLongLen, col \in {<<"A", "G">>, <<Gap, "A">>}}

InitExport ==
    /\ ref_file = Missing
    /\ query_file = Missing
    /\ pc = "done"
    /\ ref_seq = None
    /\ query_seq = None
    /\ best_aln = <<>>
    /\ mutations = <<>>
    /\ signals = <<>>
    /\ aligner_calls = 0
    /\ counts = <<>>
    /\ printed = FALSE
    /\ engine = <<>>
    /\ peer = <<>>
    /\ cur = 1
    /\ abandoned = FALSE
    /\ current_mutations \in ExportLists
    /\ vcf_file = <<>>
    /\ msg_box = <<>>
    /\ InitView

\* export_vcf: the dialog yields a path or not; open() succeeds or raises;
\* the writes succeed or one of them raises after `written' lines
ExportVcf ==
    /\ Len(msg_box) < MaxExports
    /\ LET lines == export_vcf(current_mutations)
       IN  \E path \in BOOLEAN, opened \in BOOLEAN, written \in 0..Len(lines) :
               IF ~path THEN UNCHANGED <<vcf_file, msg_box>>
               ELSE IF ~opened THEN /\ msg_box' = Append(msg_box, "Error")
                                    /\ UNCHANGED vcf_file
               ELSE /\ vcf_file' = SubSeq(lines, 1, written)
                    /\ msg_box' = Append(msg_box, IF written = Len(lines) THEN "Success"
                                                  ELSE "Error")
    /\ UNCHANGED <<ref_file, query_file, pc, ref_seq, query_seq, best_aln, mutations,
                   signals, aligner_calls, counts, printed, engine, peer, cur, abandoned,
                   current_mutations, view>>

NextExport == ExportVcf

SpecExport == InitExport /\ [][NextExport]_vars

\* the last export that got a path ended with "Export Complete!"
Exported == Len(msg_box) > 0 /\ msg_box[Len(msg_box)] = "Success"

\* the number a sequence of decimal digits denotes
RECURSIVE Val(_)
Val(ds) ==
    IF Len(ds) = 0 THEN 0
    ELSE 10 * Val(SubSeq(ds, 1, Len(ds) - 1))
            + (CHOOSE d \in 0..9 : Digits[d + 1] = ds[Len(ds)])

\* C16: export_vcf writes the header lines, the last being the column line
\* CHROM POS ID REF ALT INFO, and then exactly one line of six tab-separated
\* fields per record of current_mutations, in list order: the same CHROM on
\* every line, POS the record's pos, ID ".", REF and ALT the record's ref
\* and alt, INFO "TYPE=" followed by the record's kind.
C16_VcfLines ==
    Exported =>
        /\ Len(vcf_file) = 3 + Len(current_mutations)
        /\ vcf_file[3] = << <<"#CHROM">>, <<"POS">>, <<"ID">>, <<"REF">>, <<"ALT">>, <<"INFO">> >>
        /\ \A k \in 1..2 : Len(vcf_file[k]) = 1
        /\ \A k \in 1..Len(current_mutations) :
              LET line == vcf_file[3 + k]
                  m == current_mutations[k]
              IN  /\ Len(line) = 6
                  /\ line[1] = vcf_file[4][1]
                  /\ line[1] = <<"Genome">>
                  /\ \A i \in 1..Len(line[2]) : \E d \in 0..9 : Digits[d + 1] = line[2][i]
                  /\ Val(line[2]) = m.pos
                  /\ line[3] = <<".">>
                  /\ line[4] = <<m.ref>>
                  /\ line[5] = <<m.alt>>
                  /\ line[6] = <<"TYPE=", m.type>>

\* C16's case: a completed export of a list of three records of different
\* kinds, after an export that failed
C16_Witness ==
    /\ Exported
    /\ Len(msg_box) = 2 /\ msg_box[1] = "Error"
    /\ Len(current_mutations) = 3
    /\ {current_mutations[k].type : k \in 1..3} = {"SNP", "Insertion", "Deletion"}
    /\ Len(vcf_file) = 6

\* ---------------------------------------------------------------- the view
\* VariantView with the workers it starts.  A worker runs in its own thread;
\* its result and finished signals are queued to the view and handled there
\* one by one, in the order the worker emitted them.  progress_signal is
\* connected to nothing and log_signal to the terminal widget's own append;
\* the text of the terminal is not part of the state.  Signals of different
\* workers are handled in any order: every order the event queue can produce
\* is among them.
MaxRuns == 2

\* two files whose sequences differ by one leading base
ViewFiles == {Fasta(<< <<"c">> >>), Fasta(<< <<"A", "c">> >>)}

\* a worker slot that holds no worker
NoWorker == [NewWorker(NoPath, NoPath) EXCEPT !.pc = "idle"]

InitApp ==
    /\ ref_file = NoPath
    /\ query_file = NoPath
    /\ pc = "idle"
    /\ ref_seq = None
    /\ query_seq = None
    /\ best_aln = <<>>
    /\ mutations = <<>>
    /\ signals = <<>>
    /\ aligner_calls = 0
    /\ counts = <<>>
    /\ printed = FALSE
    /\ engine = <<>>
    /\ peer = NoWorker
    /\ cur = 1
    /\ abandoned = FALSE
    /\ current_mutations = <<>>
    /\ vcf_file = <<>>
    /\ msg_box = <<>>
    /\ InitView

\* a variant of check_ready with `or' for `and'
check_ready_either(r, q, enabled) == IF r # NoPath \/ q # NoPath THEN TRUE ELSE enabled

\* check_ready: whether Run is enabled after it, having been `enabled' before
check_ready(r, q, enabled) == IF r # NoPath /\ q # NoPath THEN TRUE ELSE enabled

\* select_ref: the dialog yields one of the files, or nothing when it is
\* cancelled
select_ref(files) ==
    /\ \E f \in files \cup {NoPath} :
           IF f = NoPath THEN UNCHANGED <<ref_path, btn_run>>
           ELSE /\ ref_path' = f
                /\ btn_run' = check_ready(f, query_path, btn_run)
    /\ UNCHANGED <<ref_file, query_file, pc, ref_seq, query_seq, best_aln, mutations,
                   signals, aligner_calls, counts, printed, engine, peer, cur, abandoned,
                   current_mutations, vcf_file, msg_box, query_path, btn_export, table,
                   lbl_stats, map_variants, conn, newest, runs, shown, inspector>>

SelectRef == select_ref(ViewFiles)

\* select_query
select_query(files) ==
    /\ \E f \in files \cup {NoPath} :
           IF f = NoPath THEN UNCHANGED <<query_path, btn_run>>
           ELSE /\ query_path' = f
                /\ btn_run' = check_ready(ref_path, f, btn_run)
    /\ UNCHANGED <<ref_file, query_file, pc, ref_seq, query_seq, best_aln, mutations,
                   signals, aligner_calls, counts, printed, engine, peer, cur, abandoned,
                   current_mutations, vcf_file, msg_box, ref_path, btn_export, table,
                   lbl_stats, map_variants, conn, newest, runs, shown, inspector>>

SelectQuery == select_query(ViewFiles)

\* the signals of a worker that are connected to the view, in emission order
Queued(w) == SelectSeq(w.signals, LAMBDA s : s.sig \in {"result", "finished"})

\* the worker with this number
WorkerOf(id) == IF id = cur THEN Running ELSE peer

\* an empty slot of conn
NoConn == [connected |-> FALSE, handled |-> 0]

\* a slot run_analysis can use: one that holds no worker, or the slot of
\* self.worker once that worker has returned from run and the view has handled
\* all it emitted
Free(id) ==
    \/ WorkerOf(id).pc = "idle"
    \/ /\ id = newest
       /\ WorkerOf(id).pc = "done"
       /\ conn[id].handled = Len(Queued(WorkerOf(id)))

\* the worker of slot id becomes w
SetWorker(id, w) ==
    IF id = cur
    THEN /\ ref_file' = w.ref_file
         /\ query_file' = w.query_file
         /\ pc' = w.pc
         /\ ref_seq' = w.ref_seq
         /\ query_seq' = w.query_seq
         /\ best_aln' = w.best_aln
         /\ mutations' = w.mutations
         /\ signals' = w.signals
         /\ aligner_calls' = w.aligner_calls
         /\ counts' = w.counts
         /\ printed' = w.printed
         /\ peer' = peer
    ELSE /\ peer' = w
         /\ UNCHANGED <<ref_file, query_file, pc, ref_seq, query_seq, best_aln,
                        mutations, signals, aligner_calls, counts, printed>>

\* a variant of StartArgs that passes the two paths in the other order
StartArgs_swapped(q, r) == NewWorker(r, q)

\* VariantWorker(self.query_path, self.ref_path)
StartArgs(q, r) == NewWorker(q, r)

\* run_analysis, a click on the enabled Run button: both buttons disabled, the
\* table cleared, a new worker made `self.worker', connected and started.  The
\* worker it replaces, if still running, goes on running.
RunAnalysis ==
    /\ btn_run
    /\ runs < MaxRuns
    /\ \E id \in {1, 2} :
           /\ Free(id)
           /\ id = cur \/ ~Free(cur)
           /\ SetWorker(id, StartArgs(query_path, ref_path))
           /\ newest' = id
           /\ conn' = [conn EXCEPT ![id] = [connected |-> TRUE, handled |-> 0]]
    /\ runs' = runs + 1
    /\ btn_run' = FALSE
    /\ btn_export' = FALSE
    /\ table' = [rowCount |-> 0, items |-> <<>>]
    /\ UNCHANGED <<engine, cur, abandoned, current_mutations, vcf_file, msg_box, ref_path,
                   query_path, lbl_stats, map_variants, shown, inspector>>

\* the rows display_results fills: str(pos), ref, alt, type
TableOf(list) ==
    IF Len(list) = 0 THEN [rowCount |-> BlankRows, items |-> <<>>]
    ELSE [rowCount |-> Len(list),
          items |-> [k \in 1..Len(list) |->
                        <<Str(list[k].pos), list[k].ref, list[k].alt, list[k].type>>]]

\* the statistics label after display_results, having shown `old' before
LabelOf(list, old) ==
    IF Len(list) > 0 /\ "stats" \in DOMAIN list[1] THEN <<list[1].stats>> ELSE old

\* display_results(mutations), called for a result_signal of worker id
DisplayResults(list, id) ==
    /\ current_mutations' = list
    /\ table' = TableOf(list)
    /\ btn_export' = IF Len(list) = 0 THEN btn_export ELSE TRUE
    /\ lbl_stats' = LabelOf(list, lbl_stats)
    /\ map_variants' = list
    /\ shown' = <<[latest |-> id = newest]>>
    /\ UNCHANGED btn_run

\* a variant of OnFinished that enables the Run button after a success only
OnFinished_success_only(ok, enabled) == IF ok THEN TRUE ELSE enabled

\* lambda: self.btn_run.setEnabled(True), whatever finished_signal carries
OnFinished(ok, enabled) == TRUE

\* the view handles the next queued signal of a worker: display_results for
\* a result, btn_run.setEnabled(True) for finished.  A replaced worker that
\* has returned from run is gone once its last signal has been handled.
Deliver ==
    /\ \E id \in {1, 2} :
           /\ conn[id].connected
           /\ conn[id].handled < Len(Queued(WorkerOf(id)))
           /\ LET s == Queued(WorkerOf(id))[conn[id].handled + 1]
              IN  IF s.sig = "result" THEN DisplayResults(s.list, id)
                  ELSE /\ btn_run' = OnFinished(s.ok, btn_run)
                       /\ UNCHANGED <<current_mutations, table, btn_export, lbl_stats,
                                      map_variants, shown>>
           /\ IF /\ id # newest
                 /\ WorkerOf(id).pc = "done"
                 /\ conn[id].handled + 1 = Len(Queued(WorkerOf(id)))
              THEN /\ SetWorker(id, NoWorker)
                   /\ conn' = [conn EXCEPT ![id] = NoConn]
              ELSE /\ conn' = [conn EXCEPT ![id].handled = @ + 1]
                   /\ UNCHANGED <<ref_file, query_file, pc, ref_seq, query_seq, best_aln,
                                  mutations, signals, aligner_calls, counts, printed, peer>>
    /\ UNCHANGED <<engine, cur, abandoned, vcf_file, msg_box, ref_path, query_path, newest,
                   runs, inspector>>

\* `self.worker = ...' dropped the only reference to the worker it replaced:
\* once that object is collected, nothing of it reaches the view any more
Collected ==
    /\ \E id \in {1, 2} :
           /\ conn[id].connected
           /\ id # newest
           /\ SetWorker(id, NoWorker)
           /\ conn' = [conn EXCEPT ![id] = NoConn]
    /\ UNCHANGED <<engine, cur, abandoned, current_mutations, vcf_file, msg_box, ref_path,
                   query_path, btn_run, btn_export, table, lbl_stats, map_variants, newest,
                   runs, shown, inspector>>

NextApp ==
    \/ SelectRef \/ SelectQuery \/ RunAnalysis \/ Deliver \/ Collected
    \/ RunStart \/ RunLoad \/ RunAlign \/ RunAlignRaises \/ RunCallVariants \/ RunEmit
    \/ Switch

SpecApp == InitApp /\ [][NextApp]_vars

\* a worker that was started and has not emitted finished_signal yet
InFlight(id) == WorkerOf(id).pc \notin {"idle", "done"}

\* C21: while a worker started by run_analysis has not yet emitted
\* finished_signal the Run button stays disabled, so at most one worker of
\* the view is in flight at any time.
C21_OneWorkerInFlight ==
    /\ \A id \in {1, 2} : InFlight(id) => ~btn_run
    /\ ~(InFlight(1) /\ InFlight(2))

\* the most recently started run has finished and the view has handled all
\* it emitted
Settled ==
    /\ newest # 0
    /\ \A id \in {1, 2} : ~InFlight(id)
    /\ \A id \in {1, 2} :
          conn[id].connected => conn[id].handled = Len(Queued(WorkerOf(id)))

\* the columns of a row that hold a gap
GapCols(row) == {k \in 1..Len(row) : row[k] = Gap}

\* the roles inside one worker: the reference row is the sequence of its
\* ref_file, the query row that of its query_file, and every record takes ref
\* from the first and alt from the second
RolesKept(w) ==
    w.best_aln # <<>> =>
        LET target == w.best_aln[1].target
            query == w.best_aln[1].query
        IN  /\ Degap(target) = Capped(read_fasta(w.ref_file).s)
            /\ Degap(query) = Capped(read_fasta(w.query_file).s)
            /\ w.pc \in {"emit", "done"} /\ ~w.printed =>
                  /\ \A k \in 1..Len(w.mutations) :
                        LET m == w.mutations[k]
                        IN  /\ m.ref = target[m.pos]
                            /\ m.alt = query[m.pos]
                            /\ m.type = "Insertion" <=> m.ref = Gap
                            /\ m.type = "Deletion" <=> m.alt = Gap
                  /\ {w.mutations[k].pos : k \in {j \in 1..Len(w.mutations) :
                                                     w.mutations[j].type = "Insertion"}}
                        = GapCols(target)
                  /\ {w.mutations[k].pos : k \in {j \in 1..Len(w.mutations) :
                                                     w.mutations[j].type = "Deletion"}}
                        = GapCols(query)

\* a step of run_analysis gives the new worker the view's two paths, each in
\* its own role
PathsHandedOver ==
    runs' # runs =>
        /\ WorkerOf(newest)'.ref_file = ref_path
        /\ WorkerOf(newest)'.query_file = query_path

\* C22: the reference and query roles are preserved from the view's selection
\* through the worker's constructor and the aligner to the rows call_variants
\* reads: a base only the query file has is reported as Insertion (ref is the
\* gap), a base only the reference file has as Deletion (alt is the gap).
C22_RolesPreserved ==
    /\ [](\A id \in {1, 2} : RolesKept(WorkerOf(id)))
    /\ [][PathsHandedOver]_vars

\* C22's case: with "c" chosen as reference and "Ac" as query, the view shows
\* the one record of the run on these two files: an Insertion of "A"
C22_Witness ==
    /\ ref_path = Fasta(<< <<"c">> >>)
    /\ query_path = Fasta(<< <<"A", "c">> >>)
    /\ newest # 0
    /\ WorkerOf(newest).ref_file = ref_path
    /\ WorkerOf(newest).query_file = query_path
    /\ shown = <<[latest |-> TRUE]>>
    /\ Settled
    /\ Len(current_mutations) = 1
    /\ current_mutations[1].type = "Insertion"
    /\ current_mutations[1].ref = Gap
    /\ current_mutations[1].alt = "A"

\* C23: whenever the Export button is enabled, current_mutations is non-empty
\* and is the list display_results received last.
C23_ExportHasRecords ==
    btn_export => /\ shown # <<>>
                  /\ map_variants = current_mutations
                  /\ Len(current_mutations) > 0

\* C24: once a run has finished, the statistics label shows the statistics of
\* the list that run delivered when the list is non-empty, and no statistics
\* (nothing of an earlier run) when the list is empty or the run failed.
C24_StatsOfFinishedRun ==
    Settled =>
        LET got == DeliveredIn(WorkerOf(newest).signals)
        IN  IF got # <<>> /\ Len(got[1]) > 0
            THEN lbl_stats = <<got[1][1].stats>>
            ELSE lbl_stats = <<>>

\* C25: whenever no run is in flight, the rows of the table, current_mutations
\* and the variants of the map describe one and the same list.
C25_PresentationsAgree ==
    Settled => /\ table.items = TableOf(current_mutations).items
               /\ table.rowCount \in {Len(current_mutations), BlankRows}
               /\ map_variants = current_mutations

\* the workers run_analysis has started and that still exist
Started == {id \in {1, 2} : WorkerOf(id).pc # "idle"}

\* C30: the Run button is enabled only if both ref_path and query_path have
\* been selected, and no worker is ever started with a missing path, after any
\* sequence of select_ref, select_query (cancelled dialogs included) and
\* run_analysis.
C30_RunNeedsBothPaths ==
    /\ btn_run => ref_path # NoPath /\ query_path # NoPath
    /\ \A id \in Started : /\ WorkerOf(id).ref_file # NoPath
                           /\ WorkerOf(id).query_file # NoPath

\* C30's case: both files are chosen, a worker has been started with them and
\* has finished, and the Run button is enabled again
C30_Witness ==
    /\ btn_run
    /\ ref_path # NoPath
    /\ query_path # NoPath
    /\ newest # 0
    /\ WorkerOf(newest).pc = "done"
    /\ WorkerOf(newest).ref_file = ref_path
    /\ WorkerOf(newest).query_file = query_path

\* C26: display_results only ever receives the result of the most recently
\* started worker: a result_signal of a worker started before the one that is
\* self.worker is never shown.
C26_OnlyNewestShown ==
    shown # <<>> => shown[1].latest

\* the lists a run on this reference file and this query file can deliver
ResultsOf(rf, qf) ==
    UNION {{DeliveredIn(s)[k] : k \in 1..Len(DeliveredIn(s))} : s \in AloneSignals(rf, qf)}

\* C27: whenever the Export button is enabled, the list export_vcf would write
\* is a result for the reference and query files now selected in the view.
C27_ExportOfSelectedPair ==
    btn_export => /\ ref_path # NoPath
                  /\ query_path # NoPath
                  /\ current_mutations \in ResultsOf(ref_path, query_path)

\* ------------------------------------------------------------ the inspector
\* the view after display_results has shown a list
InitInspect ==
    /\ ref_file = Missing
    /\ query_file = Missing
    /\ pc = "done"
    /\ ref_seq = None
    /\ query_seq = None
    /\ best_aln = <<>>
    /\ mutations = <<>>
    /\ signals = <<>>
    /\ aligner_calls = 0
    /\ counts = <<>>
    /\ printed = FALSE
    /\ engine = <<>>
    /\ peer = NewWorker(Missing, Missing)
    /\ cur = 1
    /\ abandoned = FALSE
    /\ vcf_file = <<>>
    /\ msg_box = <<>>
    /\ current_mutations \in ExportLists
    /\ ref_path \in ViewFiles
    /\ query_path \in ViewFiles
    /\ btn_run = TRUE
    /\ btn_export = (Len(current_mutations) > 0)
    /\ table = TableOf(current_mutations)
    /\ lbl_stats = LabelOf(current_mutations, <<>>)
    /\ map_variants = current_mutations
    /\ conn = [id \in {1, 2} |-> NoConn]
    /\ newest = 1
    /\ runs = 1
    /\ shown = <<[latest |-> TRUE]>>
    /\ inspector = <<>>

\* seq[:mid], the highlighted seq[mid], seq[mid+1:]
Highlight(seq, mid) ==
    [before |-> SubSeq(seq, 1, mid), marked |-> seq[mid + 1],
     after |-> SubSeq(seq, mid + 2, Len(seq))]

\* show_mutation_details(item): a click on an item of a filled table row (row
\* is item.row() + 1); the two context labels get the contexts of the record
\* with the character at len(ctx_ref) // 2 highlighted
ShowMutationDetails ==
    /\ \E row \in 1..Len(table.items) :
           IF row - 1 < Len(current_mutations)
           THEN LET m == current_mutations[row]
                    mid == Len(m.ctx_ref) \div 2
                IN  IF m.ctx_ref # <<>> /\ m.ctx_query # <<>>
                    THEN inspector' = <<[row |-> row,
                                         lbl_ctx_ref |-> Highlight(m.ctx_ref, mid),
                                         lbl_ctx_query |-> Highlight(m.ctx_query, mid)]>>
                    ELSE UNCHANGED inspector
           ELSE UNCHANGED inspector
    /\ UNCHANGED <<ref_file, query_file, pc, ref_seq, query_seq, best_aln, mutations,
                   signals, aligner_calls, counts, printed, engine, peer, cur, abandoned,
                   current_mutations, vcf_file, msg_box, ref_path, query_path, btn_run,
                   btn_export, table, lbl_stats, map_variants, conn, newest, runs, shown>>

NextInspect == ShowMutationDetails

SpecInspect == InitInspect /\ [][NextInspect]_vars

\* C28: for every record shown in the table, show_mutation_details highlights
\* the variant column: the highlighted character of ctx_ref is the record's
\* ref base and that of ctx_query its alt base, wherever in the alignment the
\* variant lies.
C28_HighlightIsVariant ==
    inspector # <<>> =>
        LET m == current_mutations[inspector[1].row]
        IN  /\ inspector[1].lbl_ctx_ref.marked = m.ref
            /\ inspector[1].lbl_ctx_query.marked = m.alt

\* ------------------------------------------------------------------ progress
\* Every thread that can run is scheduled again and again, the alignment call
\* returns or raises, and the event loop of the view handles every signal
\* queued to it.  What the user does, and whether a replaced worker is
\* collected, is left open.
RunStep == RunStart \/ RunLoad \/ RunAlignRaises \/ RunAlign \/ RunCallVariants \/ RunEmit

\* the files on offer here: one that cannot be read and one with a sequence,
\* so that a run can fail to load, raise, or succeed
LiveFiles == {Missing, Fasta(<< <<"c">> >>)}

SelectRefLive == select_ref(LiveFiles)

SelectQueryLive == select_query(LiveFiles)

NextLive ==
    \/ SelectRefLive \/ SelectQueryLive \/ RunAnalysis \/ Deliver \/ Collected
    \/ RunStart \/ RunLoad \/ RunAlign \/ RunAlignRaises \/ RunCallVariants \/ RunEmit
    \/ Switch

SpecAppLive ==
    /\ InitApp
    /\ [][NextLive]_vars
    /\ WF_vars(RunStep)
    /\ WF_vars(Switch)
    /\ WF_vars(Deliver)

\* C29: every run started by run_analysis eventually ends with the Run button
\* enabled again, whether the run succeeds, fails to load or raises.
C29_RunButtonReturns ==
    \A id \in {1, 2} : InFlight(id) ~> (~InFlight(id) /\ btn_run)

\* C29's case: a run has failed to load and the Run button is enabled again
C29_Witness ==
    /\ newest # 0
    /\ Settled
    /\ WorkerOf(newest).ref_file = Missing
    /\ DeliveredIn(WorkerOf(newest).signals) = <<>>
    /\ btn_run

====
